---- MODULE Spec2Model ----
(***************************************************************************)
(* Model of THRDLAB/thrd-ocr-bio: the TSH text parser (parsers/tsh.py),    *)
(* the /ocr/tsh handler (app.py) and the OCR passes (ocr_engine.py).       *)
(*                                                                         *)
(* Strings are sequences of one-character strings.  Python floats are      *)
(* fixed-point integers counted in 1/Scale.  An Optional value is <<>>     *)
(* (None) or <<v>>.                                                        *)
(***************************************************************************)
EXTENDS Integers, Sequences, FiniteSets, TLC

VARIABLES pc, rawText, file, candidates, best, result, raised,
          tempFiles, tempLog, passCalls, normText, normHist, refRaw, refOut,
          ocrOut

vars == <<pc, rawText, file, candidates, best, result, raised,
          tempFiles, tempLog, passCalls, normText, normHist, refRaw, refOut,
          ocrOut>>

---------------------------------------------------------------------------
(* Optional values *)

None == <<>>

Some(x) == <<x>>

IsNone(o) == o = <<>>

Get(o) == o[1]

---------------------------------------------------------------------------
(* Bounds of the model *)

\* longest raw string handed to _normalize_text
MaxNormLen == 4

\* number of successive _normalize_text applications observed
MaxNormCalls == 2

\* largest number of lines of an OCR text handed to premium_parse_tsh
MaxLines == 2
MaxBoundLen == 4

---------------------------------------------------------------------------
(* Characters *)

UpperSeq == <<"A","B","C","D","E","F","G","H","I","J","K","L","M",
              "N","O","P","Q","R","S","T","U","V","W","X","Y","Z","É","È","À">>

LowerSeq == <<"a","b","c","d","e","f","g","h","i","j","k","l","m",
              "n","o","p","q","r","s","t","u","v","w","x","y","z","é","è","à">>

Digits == {"0","1","2","3","4","5","6","7","8","9"}

\* the characters of class \s that the model's alphabet holds
Spaces == {" ", "\t", "\n", "\r", "\f"}

\* the class [ \t\f\v] of _normalize_text
Blanks == {" ", "\t", "\f"}

Range(s) == {s[i] : i \in 1..Len(s)}

\* the characters of class \w: letters, digits, underscore
IsWord(c) == c \in Range(UpperSeq) \cup Range(LowerSeq) \cup Digits \cup {"_", "µ"}

\* str.lower() and re.IGNORECASE, one character
LowerChar(c) ==
  IF \E i \in 1..Len(UpperSeq) : UpperSeq[i] = c
  THEN LowerSeq[CHOOSE i \in 1..Len(UpperSeq) : UpperSeq[i] = c]
  ELSE c

Lower(s) == [i \in 1..Len(s) |-> LowerChar(s[i])] \o <<>>

DigitVal(c) ==
  CASE c = "0" -> 0 [] c = "1" -> 1 [] c = "2" -> 2 [] c = "3" -> 3
    [] c = "4" -> 4 [] c = "5" -> 5 [] c = "6" -> 6 [] c = "7" -> 7
    [] c = "8" -> 8 [] c = "9" -> 9

\* s[a..b-1] with 1-based a and exclusive b, as Python's s[a-1:b-1]
Slice(s, a, b) == SubSeq(s, a, b - 1)

\* sub occurs in s at position i
OccursAt(s, sub, i) ==
  /\ i >= 1
  /\ i + Len(sub) - 1 <= Len(s)
  /\ \A k \in 1..Len(sub) : s[i + k - 1] = sub[k]

\* Python's `sub in s`
Contains(s, sub) == \E i \in 1..(Len(s) + 1) : OccursAt(s, sub, i)

---------------------------------------------------------------------------
(* _normalize_text *)

\* str.replace of one character by another
ReplaceChar(s, old, new) ==
  [i \in 1..Len(s) |-> IF s[i] = old THEN new ELSE s[i]] \o <<>>

\* every character of s with a flag: it continues a run of cls
MarkRuns(s, cls) ==
  [i \in 1..Len(s) |-> [c |-> s[i], dup |-> s[i] \in cls /\ i > 1 /\ s[i-1] \in cls]] \o <<>>

StartsRun(m) == ~m.dup

\* the characters of the marked sequence, each member of cls turned into rep
Unmark(ms, cls, rep) ==
  [i \in 1..Len(ms) |-> IF ms[i].c \in cls THEN rep ELSE ms[i].c] \o <<>>

\* re.sub(r"[cls]+", rep, s): every maximal run of cls becomes one rep
CollapseRuns(s, cls, rep) == Unmark(SelectSeq(MarkRuns(s, cls), StartsRun), cls, rep)

\* a mis-ordered normalizer: newlines are collapsed before "\r" is replaced
NormalizeTextCollapseFirst(text) ==
  IF IsNone(text) \/ Get(text) = <<>> THEN <<>>
  ELSE ReplaceChar(CollapseRuns(CollapseRuns(Get(text), Blanks, " "), {"\n"}, "\n"), "\r", "\n")

NormalizeText(text) ==
  IF IsNone(text) \/ Get(text) = <<>> THEN <<>>
  ELSE CollapseRuns(CollapseRuns(ReplaceChar(Get(text), "\r", "\n"), Blanks, " "), {"\n"}, "\n")

---------------------------------------------------------------------------
(* Regular-expression helpers.  Positions are 1-based; an end position is   *)
(* exclusive; 0 stands for "no match".  A value that a step of the code     *)
(* computes once and reads several times is handed on as a parameter.       *)

\* first position >= i whose character is outside cls: a greedy [cls]*
SkipClass(s, i, cls) ==
  CHOOSE k \in i..(Len(s) + 1) :
    /\ k = Len(s) + 1 \/ s[k] \notin cls
    /\ \A j \in i..(k - 1) : s[j] \in cls

\* \b at position i of s (between s[i-1] and s[i])
WordBoundary(s, i) ==
  (i > 1 /\ i - 1 <= Len(s) /\ IsWord(s[i-1])) # (i >= 1 /\ i <= Len(s) /\ IsWord(s[i]))

\* a if alternative a matched, else b
OrElse(a, b) == IF a # 0 THEN a ELSE b

\* a literal pattern whose characters may be followed by "?" (optional),
\* matched at position i with backtracking; returns the end position
RECURSIVE MatchPat(_, _, _, _)
MatchPat(s, i, p, k) ==
  IF k > Len(p) THEN i
  ELSE IF k + 1 <= Len(p) /\ p[k+1] = "?"
       THEN OrElse(IF i <= Len(s) /\ s[i] = p[k] THEN MatchPat(s, i + 1, p, k + 2) ELSE 0,
                   MatchPat(s, i, p, k + 2))
  ELSE IF i <= Len(s) /\ s[i] = p[k] THEN MatchPat(s, i + 1, p, k + 1)
  ELSE 0

\* the first pattern of the alternation pats, from the a-th on, that matches
\* at i: its end position, else 0
RECURSIVE AltEndFrom(_, _, _, _)
AltEndFrom(s, i, pats, a) ==
  IF a > Len(pats) THEN 0
  ELSE OrElse(MatchPat(s, i, pats[a], 1), AltEndFrom(s, i, pats, a + 1))

FirstAltEnd(s, i, pats) == AltEndFrom(s, i, pats, 1)

\* re.search: ends[i] is the end of the match that starts at i (0: none);
\* the leftmost match, None when there is none
FirstMatch(ends) ==
  IF \A i \in 1..Len(ends) : ends[i] = 0 THEN None
  ELSE LET i == CHOOSE i \in 1..Len(ends) :
                  ends[i] # 0 /\ \A j \in 1..(i - 1) : ends[j] = 0
       IN Some([start |-> i, end |-> ends[i]])

---------------------------------------------------------------------------
(* NUM_RE = [+-]?\d+(?:[.,]\d+)? *)

\* (?:[.,]\d+)? after the digits that end at e1
NumFraction(s, e1) ==
  IF e1 + 1 <= Len(s) /\ s[e1] \in {".", ","} /\ s[e1 + 1] \in Digits
  THEN SkipClass(s, e1 + 1, Digits)
  ELSE e1

\* \d+ at j, then the fraction
NumDigits(s, j, e1) == IF e1 = j THEN 0 ELSE NumFraction(s, e1)

\* the number whose digits start at j
NumFrom(s, j) == IF j > Len(s) THEN 0 ELSE NumDigits(s, j, SkipClass(s, j, Digits))

\* NUM_RE matched at position i: its end, or 0
NumMatchAt(s, i) ==
  IF i < 1 \/ i > Len(s) THEN 0
  ELSE NumFrom(s, IF s[i] \in {"+", "-"} THEN i + 1 ELSE i)

\* the matches left to right, without overlap, given the end of the match
\* at every position
NumMatchesOf(ends) ==
  LET F[i \in 1..(Len(ends) + 1)] ==
        IF i > Len(ends) THEN <<>>
        ELSE IF ends[i] # 0 THEN <<[start |-> i, end |-> ends[i]]>> \o F[ends[i]]
        ELSE F[i + 1]
  IN F[1]

\* NUM_RE.finditer(s)
NumFindAll(s) == NumMatchesOf([i \in 1..Len(s) |-> NumMatchAt(s, i)] \o <<>>)

---------------------------------------------------------------------------
(* _to_float and _adjust_ref_value *)

\* floats are counted in thousandths
Scale == 1000

Pow10(n) == CASE n = 0 -> 1 [] n = 1 -> 10 [] n = 2 -> 100 [] OTHER -> 1000

\* int() of a run of digits
DigitsToInt(s) ==
  LET F[i \in 0..Len(s)] == IF i = 0 THEN 0 ELSE F[i-1] * 10 + DigitVal(s[i])
  IN F[Len(s)]

FilterSeq(s, cls) == SelectSeq(s, LAMBDA c : c \in cls)

\* the value of the decimals frac, in 1/Scale; decimals beyond the third
\* are dropped
FractionValue(frac) ==
  IF Len(frac) <= 3 THEN DigitsToInt(frac) * Pow10(3 - Len(frac))
  ELSE DigitsToInt(Slice(frac, 1, 4))

\* float() of the unsigned \d+(\.\d+)? whose digits end at e1
ParseUnsigned(u, e1) ==
  IF e1 = 1 THEN None
  ELSE IF e1 = Len(u) + 1 THEN Some(DigitsToInt(u) * Scale)
  ELSE IF u[e1] = "." /\ e1 < Len(u) /\ \A q \in (e1 + 1)..Len(u) : u[q] \in Digits
       THEN Some(DigitsToInt(Slice(u, 1, e1)) * Scale
                 + FractionValue(Slice(u, e1 + 1, Len(u) + 1)))
  ELSE None

Negate(o) == IF IsNone(o) THEN None ELSE Some(0 - Get(o))

\* float() of [+-]?\d+(\.\d+)?, None for anything else (ValueError)
ParseFloat(s) ==
  IF s = <<>> THEN None
  ELSE IF s[1] = "-" THEN Negate(ParseUnsigned(Tail(s), SkipClass(Tail(s), 1, Digits)))
  ELSE IF s[1] = "+" THEN ParseUnsigned(Tail(s), SkipClass(Tail(s), 1, Digits))
  ELSE ParseUnsigned(s, SkipClass(s, 1, Digits))

\* _to_float
ToFloat(s) ==
  IF s = <<>> THEN None
  ELSE ParseFloat(ReplaceChar(FilterSeq(s, Range(s) \ {" "}), ",", "."))

\* the rescaling of a bound written without a decimal mark
AdjustDigits(digits) ==
  IF digits = <<>> THEN None
  ELSE IF Len(digits) >= 4 THEN Some(DigitsToInt(digits))
  ELSE IF Len(digits) = 3 THEN Some(DigitsToInt(digits) * 10)
  ELSE Some(DigitsToInt(digits) * Scale)

\* _adjust_ref_value
AdjustRefValue(raw) ==
  IF raw = <<>> THEN None
  ELSE IF "," \in Range(raw) \/ "." \in Range(raw) THEN ToFloat(raw)
  ELSE AdjustDigits(FilterSeq(raw, Digits))

---------------------------------------------------------------------------
(* LABEL_RE, compiled with re.IGNORECASE: the operators below take the      *)
(* lower-cased line.                                                        *)

\* [.\s]*H after the S at position j
BaseTshH(l, k) == IF k > Len(l) \/ l[k] # "h" THEN 0 ELSE k + 1

\* [.\s]*S[.\s]*H from position j on
BaseTshS(l, j) ==
  IF j > Len(l) \/ l[j] # "s" THEN 0
  ELSE BaseTshH(l, SkipClass(l, j + 1, {"."} \cup Spaces))

\* BASE_TSH = T[.\s]*S[.\s]*H
BaseTshEnd(l, i) ==
  IF i < 1 \/ i > Len(l) \/ l[i] # "t" THEN 0
  ELSE BaseTshS(l, SkipClass(l, i + 1, {"."} \cup Spaces))

\* \s*g[ée]n[ée]?ration? after the ordinal that ends at b
GenerationWord(l, b) ==
  IF b = 0 THEN 0
  ELSE FirstAltEnd(l, SkipClass(l, b, Spaces),
                   <<<<"g","é","n","é","?","r","a","t","i","o","n","?">>, <<"g","e","n","e","?","r","a","t","i","o","n","?">>,
                     <<"g","é","n","e","?","r","a","t","i","o","n","?">>, <<"g","e","n","é","?","r","a","t","i","o","n","?">>>>)

\* 3(?:e|ème) at a
GenerationOrdinal(l, a) ==
  IF a <= Len(l) /\ l[a] = "3"
  THEN FirstAltEnd(l, a + 1, <<<<"e">>, <<"è","m","e">>>>)
  ELSE 0

\* \s*3(?:e|ème)\s*g[ée]n[ée]?ration?
GenerationEnd(l, e) == GenerationWord(l, GenerationOrdinal(l, SkipClass(l, e, Spaces)))

\* \s*sensible after "ultra" that ends at a
UltraSensibleWord(l, a) ==
  IF a = 0 THEN 0 ELSE MatchPat(l, SkipClass(l, a, Spaces), <<"s","e","n","s","i","b","l","e">>, 1)

\* \s*ultra\s*sensible
UltraSensibleEnd(l, e) ==
  UltraSensibleWord(l, MatchPat(l, SkipClass(l, e, Spaces), <<"u","l","t","r","a">>, 1))

\* \b after "us" that ends at a
UsBoundary(l, a) == IF a # 0 /\ WordBoundary(l, a) THEN a ELSE 0

\* \s*us\b
UsEnd(l, e) == UsBoundary(l, MatchPat(l, SkipClass(l, e, Spaces), <<"u","s">>, 1))

\* the four alternatives that begin with BASE_TSH, which ends at e
LabelAfterBase(l, e) ==
  IF e = 0 THEN 0
  ELSE OrElse(GenerationEnd(l, e),
       OrElse(UltraSensibleEnd(l, e),
       OrElse(UsEnd(l, e),
              IF WordBoundary(l, e) THEN e ELSE 0)))

\* TSH_LABEL_PATTERN at position i: the alternatives in their order
LabelMatchAt(l, i) ==
  OrElse(LabelAfterBase(l, BaseTshEnd(l, i)),
         FirstAltEnd(l, i, <<<<"t","h","y","r","e","o","s","t","i","m","u","l","i","n","e">>, <<"t","h","y","r","é","o","s","t","i","m","u","l","i","n","e">>,
                             <<"t","h","y","r","o","t","r","o","p","i","n","e">>>>))

\* LABEL_RE.search on the lower-cased line
LabelSearchLower(l) == FirstMatch([i \in 1..Len(l) |-> LabelMatchAt(l, i)] \o <<>>)

\* LABEL_RE.search(line): the leftmost match, None when there is none
LabelSearch(line) == LabelSearchLower(Lower(line))

---------------------------------------------------------------------------
(* The unit patterns, matched with re.IGNORECASE *)

\* src/parsers/tsh.py:158
LabelledUnitPats ==
  <<<<"m"," ","?","u","i","/","?","l">>, <<"µ"," ","?","u","i","/","?","l">>, <<"u"," ","?","u","i","/","?","m","l">>, <<"m","i","u","/","?","l">>, <<"m","u","/","?","l">>,
    <<"p","u","i","/","?","m","l">>, <<"u","i","/","?","l">>, <<"m","u","i">>, <<"µ","u","i">>, <<"u","u","i">>>>

\* src/parsers/tsh.py:203
FallbackUnitPats ==
  <<<<"m"," ","?","u","i","/","?","l">>, <<"µ"," ","?","u","i","/","?","l">>, <<"u"," ","?","u","i","/","?","m","l">>, <<"m","i","u","/","?","l">>, <<"m","u","/","?","l">>,
    <<"u","i","/","?","l">>, <<"m","u","i">>, <<"µ","u","i">>, <<"u","u","i">>>>

UnitSearchLower(l, pats) == FirstMatch([i \in 1..Len(l) |-> FirstAltEnd(l, i, pats)] \o <<>>)

\* re.search(pats, s, re.IGNORECASE): the leftmost match, None when none
UnitSearch(s, pats) == UnitSearchLower(Lower(s), pats)

\* the 25 characters of unit_window
UnitWindow == 25

---------------------------------------------------------------------------
(* RANGE_RE = (?P<min>NUM)\s*(?:-|en dash|em dash|~|à|a|to|&)\s*(?P<max>NUM), case      *)
(* sensitive.  No separator begins with a digit, a decimal mark or a space, *)
(* so the greedy match of each part is the only one.  The en dash and the   *)
(* em dash are the one-character strings "EN_DASH" and "EM_DASH".          *)

RangeSeparators == <<<<"-">>, <<"EN_DASH">>, <<"EM_DASH">>, <<"~">>, <<"à">>, <<"a">>, <<"t","o">>, <<"&">>>>

\* the groups of the match: min is s[i..e1), max is s[k..e2)
RangeGroups(s, i, e1, k, e2) ==
  IF e2 = 0 THEN None
  ELSE Some([min |-> Slice(s, i, e1), max |-> Slice(s, k, e2)])

\* \s*(?P<max>NUM) after the separator that ends at se
RangeMax(s, i, e1, k) == RangeGroups(s, i, e1, k, NumMatchAt(s, k))

\* the separator, then the rest
RangeAfterSeparator(s, i, e1, se) ==
  IF se = 0 THEN None ELSE RangeMax(s, i, e1, SkipClass(s, se, Spaces))

\* \s*(?:separator) after the min that ends at e1
RangeAfterMin(s, i, e1) ==
  IF e1 = 0 THEN None
  ELSE RangeAfterSeparator(s, i, e1, FirstAltEnd(s, SkipClass(s, e1, Spaces), RangeSeparators))

\* RANGE_RE matched at position i: its groups, or None
RangeMatchAt(s, i) == RangeAfterMin(s, i, NumMatchAt(s, i))

\* the first match of ms at or after pos
FirstGroupsFrom(ms, pos) ==
  IF \A i \in pos..Len(ms) : IsNone(ms[i]) THEN None
  ELSE ms[CHOOSE i \in pos..Len(ms) :
            ~IsNone(ms[i]) /\ \A j \in pos..(i - 1) : IsNone(ms[j])]

\* RANGE_RE.search(s, pos) with a 1-based pos
RangeSearch(s, pos) == FirstGroupsFrom([i \in 1..Len(s) |-> RangeMatchAt(s, i)] \o <<>>, pos)

---------------------------------------------------------------------------
(* Candidates: TSHMatch records *)

TSHMatch(label, value, unit, ref_min, ref_max, span, raw_line, raw_snippet) ==
  [label |-> label, value |-> value, unit |-> unit, ref_min |-> ref_min,
   ref_max |-> ref_max, span |-> span, raw_line |-> raw_line,
   raw_snippet |-> raw_snippet]

\* unit_match.group(0), None without a match
MatchedText(s, m) == IF IsNone(m) THEN None ELSE Some(Slice(s, Get(m).start, Get(m).end))

\* snippet[pos : pos + 25] with a 1-based pos
UnitWindowAt(snippet, pos) ==
  Slice(snippet, pos, IF pos + UnitWindow <= Len(snippet) + 1
                      THEN pos + UnitWindow ELSE Len(snippet) + 1)

\* the unit found in the window
UnitInWindow(window) == MatchedText(window, UnitSearch(window, LabelledUnitPats))

\* ref_min or ref_max of a range match: None without a match
RefMinOf(range_match) ==
  IF IsNone(range_match) THEN None ELSE AdjustRefValue(Get(range_match).min)

RefMaxOf(range_match) ==
  IF IsNone(range_match) THEN None ELSE AdjustRefValue(Get(range_match).max)

\* steps 2 and 3 of _extract_tsh_from_labelled_line and its return
LabelledMatch(line, m, snippet, tsh_num, tsh_value, range_match) ==
  Some(TSHMatch(Slice(line, m.start, m.end), tsh_value,
                UnitInWindow(UnitWindowAt(snippet, tsh_num.end)),
                RefMinOf(range_match), RefMaxOf(range_match),
                <<m.start - 1, m.end - 1>>, line, snippet))

\* the value of the first number
LabelledValue(line, m, snippet, tsh_num, tsh_value) ==
  IF IsNone(tsh_value) THEN None
  ELSE LabelledMatch(line, m, snippet, tsh_num, Get(tsh_value),
                     RangeSearch(snippet, tsh_num.end))

\* step 1: the first number after the label
LabelledNumbers(line, m, snippet, nums) ==
  IF nums = <<>> THEN None
  ELSE LabelledValue(line, m, snippet, nums[1],
                     ToFloat(Slice(snippet, nums[1].start, nums[1].end)))

\* the snippet after the label
LabelledSnippet(line, m, snippet) == LabelledNumbers(line, m, snippet, NumFindAll(snippet))

\* the label match m of the line
LabelledFrom(line, m) ==
  IF IsNone(m) THEN None
  ELSE LabelledSnippet(line, Get(m), Slice(line, Get(m).end, Len(line) + 1))

\* _extract_tsh_from_labelled_line: None, or the candidate of the line
ExtractTshFromLabelledLine(line) == LabelledFrom(line, LabelSearch(line))

\* the label given to a candidate of the fallback: "TSH (fallback mUI)"
FallbackLabel == <<"T","S","H"," ","(","f","a","l","l","b","a","c","k"," ","m","U","I",")">>

\* the return of _extract_tsh_from_mui_line
FallbackMatch(line, unit, tsh_value, range_match) ==
  IF IsNone(tsh_value) THEN None
  ELSE Some(TSHMatch(FallbackLabel, Get(tsh_value), Some(unit),
                     RefMinOf(range_match), RefMaxOf(range_match),
                     <<0, Len(line)>>, line, line))

\* the last number before the unit, the range after it
FallbackNumbers(line, unit, before, after, nums_before) ==
  IF nums_before = <<>> THEN None
  ELSE FallbackMatch(line, unit,
                     ToFloat(Slice(before, nums_before[Len(nums_before)].start,
                                   nums_before[Len(nums_before)].end)),
                     RangeSearch(after, 1))

\* the line cut around the unit
FallbackAround(line, unit, before, after) ==
  FallbackNumbers(line, unit, before, after, NumFindAll(before))

\* the unit match of the line
FallbackFrom(line, unit_match) ==
  IF IsNone(unit_match) THEN None
  ELSE FallbackAround(line, Slice(line, Get(unit_match).start, Get(unit_match).end),
                      Slice(line, 1, Get(unit_match).start),
                      Slice(line, Get(unit_match).end, Len(line) + 1))

\* the test on line.lower() that opens _extract_tsh_from_mui_line
FallbackLower(line, l) ==
  IF ~Contains(l, <<"m","u","i">>) /\ ~Contains(l, <<"u","i","/","l">>) THEN None
  ELSE FallbackFrom(line, UnitSearch(line, FallbackUnitPats))

\* _extract_tsh_from_mui_line: None, or the unit-anchored candidate of the line
ExtractTshFromMuiLine(line) == FallbackLower(line, Lower(line))

\* the lines of s cut at the newline positions nl
CutLines(s, nl) ==
  LET cut(k) == IF k = 0 THEN 0
                ELSE IF k > Cardinality(nl) THEN Len(s) + 1
                ELSE CHOOSE i \in nl : Cardinality({j \in nl : j <= i}) = k
  IN [k \in 1..(Cardinality(nl) + 1) |-> Slice(s, cut(k - 1) + 1, cut(k))] \o <<>>

\* str.split("\n")
SplitLines(s) == CutLines(s, {i \in 1..Len(s) : s[i] = "\n"})

\* the values of the optionals that are not None, in order
Present(opts) ==
  LET F[i \in 0..Len(opts)] ==
        IF i = 0 THEN <<>>
        ELSE IF IsNone(opts[i]) THEN F[i-1]
        ELSE Append(F[i-1], Get(opts[i]))
  IN F[Len(opts)]

\* the body of the first loop of _find_tsh_candidates, for one line
LabelledCandidateOf(line) ==
  IF IsNone(LabelSearch(line)) /\ ~Contains(Lower(line), <<"t","h","y","r">>) THEN None
  ELSE ExtractTshFromLabelledLine(line)

\* the first loop of _find_tsh_candidates: the label-anchored candidates
LabelledCandidates(lines) ==
  Present([i \in 1..Len(lines) |-> LabelledCandidateOf(lines[i])] \o <<>>)

\* the second loop of _find_tsh_candidates: the unit-anchored candidates
FallbackCandidates(lines) ==
  Present([i \in 1..Len(lines) |-> ExtractTshFromMuiLine(lines[i])] \o <<>>)

\* a fallback that runs whatever the first loop found
LabelledAndFallback(labelled, lines) == labelled \o FallbackCandidates(lines)

\* the second half of _find_tsh_candidates: the fallback runs only when the
\* first loop found nothing
LabelledOrFallback(labelled, lines) ==
  IF labelled # <<>> THEN labelled ELSE FallbackCandidates(lines)

\* the candidates of the lines
CandidatesOfLines(lines) == LabelledOrFallback(LabelledCandidates(lines), lines)

\* _find_tsh_candidates
FindTshCandidates(raw_text) == CandidatesOfLines(SplitLines(NormalizeText(Some(raw_text))))

---------------------------------------------------------------------------
(* Selection *)

HasInterval(c) == ~IsNone(c.ref_min) /\ ~IsNone(c.ref_max)

\* label_penalty of _score_candidate, for the lower-cased label
LabelPenalty(l) ==
  IF Contains(l, <<"f","a","l","l","b","a","c","k">>) THEN 2
  ELSE IF Contains(l, <<"t","s","h">>) THEN 0
  ELSE IF Contains(l, <<"t","h","y","r">>) THEN 1
  ELSE 3

\* _score_candidate: <<has_range, label_penalty>>
ScoreCandidate(c) == <<IF HasInterval(c) THEN 0 ELSE 1, LabelPenalty(Lower(c.label))>>

\* the sort key of _pick_best_candidate
SortKey(c) == ScoreCandidate(c) \o <<c.span[1]>>

\* tuple comparison a < b of Python, on triples
KeyLess(a, b) ==
  \/ a[1] < b[1]
  \/ a[1] = b[1] /\ a[2] < b[2]
  \/ a[1] = b[1] /\ a[2] = b[2] /\ a[3] < b[3]

\* the head of the stable sort of the candidates by their keys
HeadOfSorted(cands, keys) ==
  cands[CHOOSE i \in 1..Len(cands) :
          \A j \in 1..Len(cands) :
            KeyLess(keys[i], keys[j]) \/ (keys[i] = keys[j] /\ i <= j)]

\* _pick_best_candidate
PickBestCandidate(cands) ==
  IF cands = <<>> THEN None
  ELSE Some(HeadOfSorted(cands, [i \in 1..Len(cands) |-> SortKey(cands[i])] \o <<>>))

---------------------------------------------------------------------------
(* premium_parse_tsh *)

ParsedTSH(ok, value, unit, ref_min, ref_max, confidence, error) ==
  [ok |-> ok, value |-> value, unit |-> unit, ref_min |-> ref_min,
   ref_max |-> ref_max, confidence |-> confidence, error |-> error]

\* a failure returned without an error code
NotFoundNoError == ParsedTSH(FALSE, None, None, None, None, "low", None)

\* a failure returned under another code
NotFoundOtherCode == ParsedTSH(FALSE, None, None, None, None, "low", Some("NOT_FOUND"))

\* ParsedTSH(ok=False, error="TSH_NOT_FOUND")
NotFound == ParsedTSH(FALSE, None, None, None, None, "low", Some("TSH_NOT_FOUND"))

\* the confidence of the selected candidate
ConfidenceOf(b) ==
  IF HasInterval(b) THEN "high"
  ELSE IF Contains(Lower(b.label), <<"f","a","l","l","b","a","c","k">>) THEN "low"
  ELSE "medium"

\* the result for the candidates and the best of them
ParsedFromBest(cands, b) ==
  IF cands = <<>> THEN NotFound
  ELSE IF IsNone(b) THEN NotFound
  ELSE ParsedTSH(TRUE, Some(Get(b).value), Get(b).unit, Get(b).ref_min,
                 Get(b).ref_max, ConfidenceOf(Get(b)), None)

\* the result of premium_parse_tsh for the candidate list it found
ParsedOf(cands) == ParsedFromBest(cands, PickBestCandidate(cands))

PremiumParseTsh(raw_text, boxes) ==
  ParsedOf(FindTshCandidates(IF IsNone(raw_text) THEN <<>> ELSE Get(raw_text)))

---------------------------------------------------------------------------
(* Inputs *)

\* the lines OCR texts are made of
LineCatalog ==
  <<
    \*  1: 'TSH 3,20 mUI/L (0,40 - 4,00)'
    <<"T","S","H"," ","3",",","2","0"," ","m","U","I","/","L"," ","(","0",",","4","0"," ","-"," ","4",",","0","0",")">>,
    \*  2: 'T . S . H 187'
    <<"T"," ","."," ","S"," ","."," ","H"," ","1","8","7">>,
    \*  3: 'macro-tsh 2,1 mUI/L'
    <<"m","a","c","r","o","-","t","s","h"," ","2",",","1"," ","m","U","I","/","L">>,
    \*  4: 'Dosage TSH 1,5 mUI/L'
    <<"D","o","s","a","g","e"," ","T","S","H"," ","1",",","5"," ","m","U","I","/","L">>,
    \*  5: 'TSH 1,5 mUI/L'
    <<"T","S","H"," ","1",",","5"," ","m","U","I","/","L">>,
    \*  6: '3,2 mUI/L 0,4 - 4,0'
    <<"3",",","2"," ","m","U","I","/","L"," ","0",",","4"," ","-"," ","4",",","0">>,
    \*  7: 'TSH -5'
    <<"T","S","H"," ","-","5">>,
    \*  8: 'TSH 2 4,0 - 0,4'
    <<"T","S","H"," ","2"," ","4",",","0"," ","-"," ","0",",","4">>,
    \*  9: 'TSH 2 1 - 1'
    <<"T","S","H"," ","2"," ","1"," ","-"," ","1">>,
    \* 10: 'TSH 2 0400-4000'
    <<"T","S","H"," ","2"," ","0","4","0","0","-","4","0","0","0">>,
    \* 11: 'thyrotropine 2,5'
    <<"t","h","y","r","o","t","r","o","p","i","n","e"," ","2",",","5">>,
    \* 12: 'TSH'
    <<"T","S","H">>,
    \* 13: 'Glucose 5,1 g/L'
    <<"G","l","u","c","o","s","e"," ","5",",","1"," ","g","/","L">>,
    \* 14: 'TSH 9 mUI/L 0,4 - 4,0'
    <<"T","S","H"," ","9"," ","m","U","I","/","L"," ","0",",","4"," ","-"," ","4",",","0">>,
    \* 15: '2,2 mUI/L'
    <<"2",",","2"," ","m","U","I","/","L">>,
    \* 16: 'TSHus 0,9 µUI/mL'
    <<"T","S","H","u","s"," ","0",",","9"," ","µ","U","I","/","m","L">>,
    \* 17: 'xx TSH 1'
    <<"x","x"," ","T","S","H"," ","1">>,
    \* 18: 'TSH  3,20\tmUI/L\r'
    <<"T","S","H"," "," ","3",",","2","0","\t","m","U","I","/","L","\r">>,
    \* 19: 'macro-tsh 2,1 mUI/L 0,2 - 5'
    <<"m","a","c","r","o","-","t","s","h"," ","2",",","1"," ","m","U","I","/","L"," ","0",",","2"," ","-"," ","5">>,
    \* 20: 'thyrotropine 2 0,4-4'
    <<"t","h","y","r","o","t","r","o","p","i","n","e"," ","2"," ","0",",","4","-","4">>,
    \* 21: ''
    <<>>,
    \* 22: 'T.S.H 3ème génération 1,8 mUI/L 0,27 à 4,2'
    <<"T",".","S",".","H"," ","3","è","m","e"," ","g","é","n","é","r","a","t","i","o","n"," ","1",",","8"," ","m","U","I","/","L"," ","0",",","2","7"," ","à"," ","4",",","2">>
  >>

\* "\n".join(lines)
JoinLines(ls) ==
  LET F[i \in 1..Len(ls)] == IF i = 1 THEN ls[1] ELSE F[i-1] \o <<"\n">> \o ls[i]
  IN F[Len(ls)]

\* the raw texts handed to premium_parse_tsh: 1..MaxLines catalogue lines
Texts ==
  UNION {{JoinLines([k \in 1..n |-> LineCatalog[f[k]]]) :
            f \in [1..n -> 1..Len(LineCatalog)]} : n \in 1..MaxLines}

\* the alphabet of the strings handed to _normalize_text
NormAlphabet == {" ", "\t", "\r", "\n", "a"}

NormInputs == UNION {[1..n -> NormAlphabet] : n \in 0..MaxNormLen}

\* the alphabet of the bound strings handed to _adjust_ref_value
BoundAlphabet == {"0", "4", "7", ",", ".", "-", "+"}

\* the strings a group of RANGE_RE can capture: those the number pattern
\* matches from end to end
BoundStrings ==
  {b \in UNION {[1..n -> BoundAlphabet] : n \in 1..MaxBoundLen} :
     NumMatchAt(b, 1) = Len(b) + 1}

\* the texts after a value in which the reference interval is searched
IntervalTexts ==
  { <<"0","4","0","0","-","4","0","0","0">>,
    <<" ","0",",","4","0"," ","-"," ","4",",","0","0">>,
    <<" ","0","2","7"," ","EN_DASH"," ","4","9","4">>,
    <<" ","-","5"," ","-"," ","8">>,
    <<" ","1"," ","à"," ","5","0">>,
    <<" ","m","U","I","/","L">> }

---------------------------------------------------------------------------
(* ocr_engine.py: the fast pass *)

OCRResult(raw_text, boxes) == [raw_text |-> raw_text, boxes |-> boxes]

\* str.strip() leaves nothing
IsBlank(s) == \A i \in 1..Len(s) : s[i] \in Spaces

\* light_extract_text on an image img: None is the failure sentinel.
\* img.loadable: _load_image succeeds; img.preprocOk: preprocess_for_bio
\* succeeds; img.resizeOk: the fallback resize succeeds; img.stringOk:
\* image_to_string succeeds; img.text: the text Tesseract reads
LightExtractText(img) ==
  IF ~img.loadable THEN None
  ELSE IF ~img.preprocOk /\ ~img.resizeOk THEN None
  ELSE IF ~img.stringOk THEN None
  ELSE IF IsBlank(img.text) THEN None
  ELSE Some(OCRResult(img.text, <<>>))

\* premium_extract_text on an image img. img.dataOk: image_to_data succeeds;
\* img.tokens: the non-blank tokens it reads
PremiumExtractText(img) ==
  IF ~img.loadable THEN None
  ELSE IF ~img.preprocOk /\ ~img.resizeOk THEN None
  ELSE IF IsBlank(IF img.stringOk THEN img.text ELSE <<>>)
          /\ (IF img.dataOk THEN img.tokens ELSE <<>>) = <<>>
       THEN None
  ELSE Some(OCRResult(IF img.stringOk THEN img.text ELSE <<>>,
                      IF img.dataOk THEN img.tokens ELSE <<>>))

\* optimum_extract_text on an image img, as far as its body goes: a return
\* None when the image does not load, then the upscale, the binarization
\* and image_to_string, after which the body ends without a return (the
\* statements that follow are at module level)
OptimumExtractText(img) ==
  IF ~img.loadable THEN None
  ELSE None

---------------------------------------------------------------------------
(* app.py *)

SupportedContentTypes == {"image/jpeg", "image/png", "image/webp", "application/pdf"}

\* _is_supported_content_type
IsSupportedContentType(content_type) ==
  IF IsNone(content_type) \/ Get(content_type) = "" THEN FALSE
  ELSE Get(content_type) \in SupportedContentTypes

\* ocr_engine.py does not compile: a "return" stands outside any function
OcrEngineCompiles == FALSE

\* the names ocr_engine.py defines at module level
OcrEngineNames ==
  {"TESS_LANG", "TESS_BASE_CONFIG", "OCRResult", "_load_image", "preprocess_for_bio",
   "_run_tesseract_string", "_run_tesseract_data", "light_extract_text",
   "premium_extract_text", "optimum_extract_text"}

\* extract_text_from_file of app.py: its first statement imports the name
\* extract_text_from_file from ocr_engine; the text it would return is ""
ExtractTextFromFile(path) ==
  IF ~OcrEngineCompiles THEN [raised |-> Some("SyntaxError"), value |-> <<>>, calls |-> <<>>]
  ELSE IF "extract_text_from_file" \notin OcrEngineNames
       THEN [raised |-> Some("ImportError"), value |-> <<>>, calls |-> <<>>]
  ELSE [raised |-> None, value |-> <<>>, calls |-> <<>>]

\* parse_tsh of app.py, a stub: always None
ParseTsh(text) == None

TSHResponse(ok, tsh_value, tsh_unit, ref_min, ref_max, confidence, raw_text, error) ==
  [ok |-> ok, marker |-> "TSH", value |-> tsh_value, unit |-> tsh_unit,
   ref_min |-> ref_min, ref_max |-> ref_max, confidence |-> confidence,
   raw_text |-> raw_text, error |-> error]

\* the try block of ocr_tsh: what it returns or raises for the temp file
OcrTshBody(temp_path) ==
  LET ext == ExtractTextFromFile(temp_path)
      raw_text == ext.value
      parsed == ParseTsh(raw_text)
  IN IF ~IsNone(ext.raised) THEN [raised |-> ext.raised, ret |-> None, calls |-> ext.calls]
     ELSE IF raw_text = <<>>
          THEN [raised |-> None, calls |-> ext.calls,
                ret |-> Some(TSHResponse(FALSE, None, None, None, None, None, None,
                                         Some("OCR_EMPTY_TEXT")))]
     ELSE IF IsNone(parsed)
          THEN [raised |-> None, calls |-> ext.calls,
                ret |-> Some(TSHResponse(FALSE, None, None, None, None, None,
                                         Some(raw_text), Some("TSH_NOT_FOUND")))]
     ELSE [raised |-> None, calls |-> ext.calls,
           ret |-> Some(TSHResponse(TRUE, Some(Get(parsed).tsh_value), Get(parsed).tsh_unit,
                                    Get(parsed).ref_min, Get(parsed).ref_max,
                                    Some(Get(parsed).confidence), Some(raw_text), None))]

---------------------------------------------------------------------------
(* Requests *)

ContentTypes == {None, Some(""), Some("image/png"), Some("application/pdf"), Some("text/plain")}

\* the texts Tesseract reads on the uploaded images
ImageTexts == {LineCatalog[1], LineCatalog[5], LineCatalog[13], <<" ", "\n">>}

Images == [loadable : BOOLEAN, preprocOk : BOOLEAN, resizeOk : BOOLEAN,
           stringOk : BOOLEAN, text : ImageTexts]

\* an upload: copyOk says whether shutil.copyfileobj succeeds, removeOk
\* whether os.remove succeeds
Files == [content_type : ContentTypes, copyOk : BOOLEAN, removeOk : BOOLEAN,
          image : Images]

\* the path tempfile.NamedTemporaryFile gives
TempPath == "tmp"

NoFile == [content_type |-> None, copyOk |-> TRUE, removeOk |-> TRUE,
           image |-> [loadable |-> FALSE, preprocOk |-> FALSE, resizeOk |-> FALSE,
                      stringOk |-> FALSE, text |-> <<>>]]

\* the texts image_to_string reads on the images handed to a pass
PassTexts == {LineCatalog[5], <<" ", "\n">>, <<>>}

\* the tokens image_to_data reads
PassTokens == {<<>>, <<<<"T","S","H">>>>}

\* an image on disk and what each step of a pass does with it: the load,
\* preprocess_for_bio, the fallback resize, the upscale, the binarization,
\* image_to_string and image_to_data
PassImages ==
  [loadable : BOOLEAN, preprocOk : BOOLEAN, resizeOk : BOOLEAN, upscaleOk : BOOLEAN,
   binarizeOk : BOOLEAN, stringOk : BOOLEAN, dataOk : BOOLEAN,
   text : PassTexts, tokens : PassTokens]

\* the file of a path handed to a pass
PassFile(img) == [content_type |-> None, copyOk |-> TRUE, removeOk |-> TRUE, image |-> img]

Idle ==
  /\ candidates = <<>>
  /\ best = None
  /\ result = None
  /\ raised = None
  /\ tempFiles = {}
  /\ tempLog = <<>>
  /\ passCalls = <<>>
  /\ normHist = <<>>
  /\ refRaw = <<>>
  /\ refOut = <<>>
  /\ ocrOut = None

\* a call of premium_parse_tsh is pending
InitParse ==
  /\ pc = "parse"
  /\ rawText \in {None} \cup {Some(t) : t \in Texts}
  /\ file = NoFile
  /\ normText = None
  /\ Idle

\* a request to /ocr/tsh is pending
InitOcr ==
  /\ pc = "ocr_tsh"
  /\ file \in Files
  /\ rawText = None
  /\ normText = None
  /\ Idle

\* a call of _normalize_text is pending
InitNorm ==
  /\ pc = "normalize"
  /\ normText \in {None} \cup {Some(t) : t \in NormInputs}
  /\ rawText = None
  /\ file = NoFile
  /\ Idle

\* nothing but the rescaling of bounds is in play
NoRequest ==
  /\ rawText = None
  /\ file = NoFile
  /\ normText = None
  /\ candidates = <<>>
  /\ best = None
  /\ result = None
  /\ raised = None
  /\ tempFiles = {}
  /\ tempLog = <<>>
  /\ passCalls = <<>>
  /\ normHist = <<>>
  /\ ocrOut = None

\* a call of _adjust_ref_value on a bound string is pending, or the search
\* of a reference interval in the text after a value
InitAdjust ==
  /\ \/ pc = "adjust" /\ refRaw \in BoundStrings
     \/ pc = "range" /\ refRaw \in IntervalTexts
  /\ refOut = <<>>
  /\ NoRequest

\* a call of one of the three passes on an image is pending
InitPass ==
  /\ pc \in {"light_extract_text", "premium_extract_text", "optimum_extract_text"}
  /\ \E img \in PassImages : file = PassFile(img)
  /\ rawText = None
  /\ normText = None
  /\ Idle

Init == InitParse \/ InitOcr

\* premium_parse_tsh(rawText, boxes); candidates and best record its locals
PremiumParseTshCall ==
  /\ pc = "parse"
  /\ candidates' = FindTshCandidates(IF IsNone(rawText) THEN <<>> ELSE Get(rawText))
  /\ best' = PickBestCandidate(candidates')
  /\ result' = Some(ParsedOf(candidates'))
  /\ raised' = None
  /\ pc' = "parse_done"
  /\ UNCHANGED <<rawText, file, tempFiles, tempLog, passCalls, normText, normHist,
                 refRaw, refOut, ocrOut>>

\* the handler of POST /ocr/tsh, from the content-type check to the finally
OcrTshCall ==
  /\ pc = "ocr_tsh"
  /\ LET body == OcrTshBody(TempPath)
     IN IF ~IsSupportedContentType(file.content_type)
        THEN /\ raised' = Some("HTTPException")
             /\ result' = None
             /\ UNCHANGED <<tempFiles, tempLog, passCalls>>
        ELSE IF ~file.copyOk
        THEN /\ raised' = Some("OSError")
             /\ result' = None
             /\ tempFiles' = tempFiles \cup {TempPath}
             /\ tempLog' = tempLog \o <<"created">>
             /\ UNCHANGED passCalls
        ELSE /\ raised' = body.raised
             /\ result' = body.ret
             /\ passCalls' = passCalls \o body.calls
             /\ tempFiles' = IF file.removeOk THEN tempFiles \ {TempPath}
                             ELSE tempFiles \cup {TempPath}
             /\ tempLog' = tempLog \o <<"created",
                                        IF file.removeOk THEN "removed" ELSE "remove_failed">>
  /\ pc' = "ocr_tsh_done"
  /\ UNCHANGED <<rawText, file, candidates, best, normText, normHist, refRaw, refOut,
                 ocrOut>>

\* _normalize_text applied to the text, then to its own output
NormalizeTextCall ==
  /\ pc = "normalize"
  /\ Len(normHist) < MaxNormCalls
  /\ normHist' = Append(normHist,
                        NormalizeText(IF normHist = <<>> THEN normText
                                      ELSE Some(normHist[Len(normHist)])))
  /\ UNCHANGED <<pc, rawText, file, candidates, best, result, raised,
                 tempFiles, tempLog, passCalls, normText, refRaw, refOut, ocrOut>>

\* _adjust_ref_value(refRaw)
AdjustRefValueCall ==
  /\ pc = "adjust"
  /\ refOut' = <<AdjustRefValue(refRaw)>>
  /\ pc' = "adjust_done"
  /\ UNCHANGED <<rawText, file, candidates, best, result, raised, tempFiles,
                 tempLog, passCalls, normText, normHist, refRaw, ocrOut>>

\* ref_min and ref_max of a range match
RefBoundsOf(range_match) == <<RefMinOf(range_match), RefMaxOf(range_match)>>

\* step 3 of _extract_tsh_from_labelled_line on the text refRaw that
\* follows the value: the range search, then ref_min and ref_max
RangeBoundsCall ==
  /\ pc = "range"
  /\ refOut' = RefBoundsOf(RangeSearch(refRaw, 1))
  /\ pc' = "range_done"
  /\ UNCHANGED <<rawText, file, candidates, best, result, raised, tempFiles,
                 tempLog, passCalls, normText, normHist, refRaw, ocrOut>>

\* the call of a pass of ocr_engine: importing the module raises, the pass
\* named name would return out
PassCall(name, out) ==
  /\ IF ~OcrEngineCompiles
     THEN /\ raised' = Some("SyntaxError")
          /\ ocrOut' = None
          /\ UNCHANGED passCalls
     ELSE /\ raised' = None
          /\ ocrOut' = out
          /\ passCalls' = Append(passCalls, name)
  /\ UNCHANGED <<rawText, file, candidates, best, result, tempFiles, tempLog,
                 normText, normHist, refRaw, refOut>>

LightExtractTextCall ==
  /\ pc = "light_extract_text"
  /\ PassCall("light", LightExtractText(file.image))
  /\ pc' = "light_done"

PremiumExtractTextCall ==
  /\ pc = "premium_extract_text"
  /\ PassCall("premium", PremiumExtractText(file.image))
  /\ pc' = "premium_done"

OptimumExtractTextCall ==
  /\ pc = "optimum_extract_text"
  /\ PassCall("optimum", OptimumExtractText(file.image))
  /\ pc' = "optimum_done"

Next == PremiumParseTshCall \/ OcrTshCall

Spec == Init /\ [][Next]_vars

NextNorm == NormalizeTextCall

SpecNorm == InitNorm /\ [][NextNorm]_vars

NextAdjust == AdjustRefValueCall \/ RangeBoundsCall

SpecAdjust == InitAdjust /\ [][NextAdjust]_vars

NextPass == LightExtractTextCall \/ PremiumExtractTextCall \/ OptimumExtractTextCall

SpecPass == InitPass /\ [][NextPass]_vars

---------------------------------------------------------------------------
(* Properties *)

Returned == pc \in {"parse_done", "ocr_tsh_done"}

\* C1: the top-level API never raises: every call of premium_parse_tsh and
\* every request to /ocr/tsh ends with a returned result, a success or a
\* failure with ok = false and an error code, and with no exception.
NeverRaises ==
  Returned =>
    /\ IsNone(raised)
    /\ ~IsNone(result)
    /\ (Get(result).ok \/ ~IsNone(Get(result).error))

\* C2: in every returned result, error is non-null exactly when ok is
\* false, and ok = true implies a non-null value.
ResultConsistent ==
  ~IsNone(result) =>
    /\ ~IsNone(Get(result).error) <=> ~Get(result).ok
    /\ Get(result).ok => ~IsNone(Get(result).value)

\* a parse that succeeded and one field short of a full result
ResultConsistentWitness ==
  /\ pc = "parse_done"
  /\ ~IsNone(result)
  /\ Get(result).ok
  /\ ~IsNone(Get(result).value)
  /\ IsNone(Get(result).error)
  /\ IsNone(Get(result).unit)

\* C3: a successful result has 0 <= value <= ceiling, with a ceiling below
\* 150: a negative value or one above the ceiling never becomes the value
\* of a successful result.
PlausibleValue ==
  (~IsNone(result) /\ Get(result).ok) =>
    /\ 0 <= Get(Get(result).value)
    /\ Get(Get(result).value) < 150 * Scale

\* C4: whenever a returned result has both ref_min and ref_max, ref_min is
\* strictly below ref_max.
IntervalOrdered ==
  (~IsNone(result) /\ ~IsNone(Get(result).ref_min) /\ ~IsNone(Get(result).ref_max)) =>
    Get(Get(result).ref_min) < Get(Get(result).ref_max)

\* the parse result r is a success with both interval bounds
HasBothBounds(r) == r.ok /\ ~IsNone(r.ref_min) /\ ~IsNone(r.ref_max)

\* the fast pass returned ocr and the best candidate of its text has both bounds
BestOfPassHasInterval(ocr) ==
  ~IsNone(ocr) /\ HasBothBounds(PremiumParseTsh(Some(Get(ocr).raw_text), Get(ocr).boxes))

\* the best candidate parsed from the fast pass's output has both bounds
FastBestHasInterval(img) == BestOfPassHasInterval(LightExtractText(img))

IsPrefix(a, b) == Len(a) <= Len(b) /\ \A i \in 1..Len(a) : a[i] = b[i]

\* C5: the passes run in the order light, premium, optimum, and a request
\* whose fast pass yields a best candidate with both interval bounds is
\* accepted at once: only the fast pass was invoked.
EscalationMonotonicity ==
  /\ IsPrefix(passCalls, <<"light", "premium", "optimum">>)
  /\ (/\ pc = "ocr_tsh_done"
      /\ IsSupportedContentType(file.content_type)
      /\ file.copyOk
      /\ FastBestHasInterval(file.image))
     => /\ passCalls = <<"light">>
        /\ ~IsNone(result)
        /\ Get(result).ok

NormalizeIdempotent ==
  /\ Len(normHist) >= 2 => normHist[2] = normHist[1]
  /\ (Len(normHist) >= 1 /\ (IsNone(normText) \/ Get(normText) = <<>>)) =>
       normHist[1] = <<>>

\* a text that normalization changed, without emptying it, was normalized
\* a second time
NormalizeWitness ==
  /\ pc = "normalize"
  /\ Len(normHist) = 2
  /\ ~IsNone(normText)
  /\ normHist[1] # Get(normText)
  /\ normHist[1] # <<>>
  /\ "\n" \in Range(normHist[1])

\* C8: confidence "high" only for a selected candidate that was matched by
\* a label (not by the unit-anchored fallback), whose value is plausible and
\* lies inside its reference interval, both bounds being present.
HighConfidenceJustified ==
  (pc = "parse_done" /\ Get(result).ok /\ Get(result).confidence = "high") =>
    /\ ~Contains(Lower(Get(best).label), <<"f","a","l","l","b","a","c","k">>)
    /\ 0 <= Get(best).value
    /\ Get(best).value < 150 * Scale
    /\ HasInterval(Get(best))
    /\ Get(Get(best).ref_min) <= Get(best).value
    /\ Get(best).value <= Get(Get(best).ref_max)

\* the label of candidate c is the tail of the word "macro-tsh"
IsMacro(c) == OccursAt(Lower(c.raw_line), <<"m","a","c","r","o","-">>, c.span[1] - 5)

\* C9: when a macro-tsh line with a value precedes a genuine TSH label line
\* with a value, the selected candidate is not the macro-tsh one, wherever
\* the two labels stand in their lines.
MacroNeverOutranksGenuine ==
  (/\ pc = "parse_done"
   /\ \E i, j \in 1..Len(candidates) :
        i < j /\ IsMacro(candidates[i]) /\ ~IsMacro(candidates[j]))
  => ~IsMacro(Get(best))

\* tuple comparison a < b of Python, on pairs
ScoreLess(a, b) == a[1] < b[1] \/ (a[1] = b[1] /\ a[2] < b[2])

\* C10: _pick_best_candidate returns a candidate minimal under (interval
\* absent, label strength) and, among the candidates tied with it, the one
\* of the earliest line.
PickBestEarliestOfTies ==
  (pc = "parse_done" /\ candidates # <<>>) =>
    /\ ~IsNone(best)
    /\ \A j \in 1..Len(candidates) :
         ~ScoreLess(ScoreCandidate(candidates[j]), ScoreCandidate(Get(best)))
    /\ \A j \in 1..Len(candidates) :
         ScoreCandidate(candidates[j]) = ScoreCandidate(Get(best)) =>
           \E i \in 1..j : candidates[i] = Get(best)

\* the lines _find_tsh_candidates reads in the text of the call
TextLines ==
  SplitLines(NormalizeText(Some(IF IsNone(rawText) THEN <<>> ELSE Get(rawText))))

\* candidate c comes from the unit-anchored fallback
IsFallbackCandidate(c) == c.label = FallbackLabel

\* cands against what the two extractions give line by line: labelled[k] and
\* fallback[k] are the candidates of line k, None where there is none
FallbackOnlyWithout(cands, labelled, fallback) ==
  /\ (\E i \in 1..Len(cands) : IsFallbackCandidate(cands[i])) =>
       \A k \in 1..Len(labelled) : IsNone(labelled[k])
  /\ \A i, j \in 1..Len(cands) :
       ~(IsFallbackCandidate(cands[i]) /\ ~IsFallbackCandidate(cands[j]))
  /\ (\A k \in 1..Len(labelled) : IsNone(labelled[k])) =>
       \A k \in 1..Len(fallback) :
         ~IsNone(fallback[k]) => \E i \in 1..Len(cands) : cands[i] = Get(fallback[k])

\* the same, for the lines of the text
FallbackOnlyOfLines(cands, lines) ==
  FallbackOnlyWithout(cands,
    [k \in 1..Len(lines) |-> ExtractTshFromLabelledLine(lines[k])] \o <<>>,
    [k \in 1..Len(lines) |-> ExtractTshFromMuiLine(lines[k])] \o <<>>)

\* C11: the list of _find_tsh_candidates holds fallback candidates only if
\* no line gave a label-anchored candidate, never both kinds, and when no
\* line gave a label-anchored candidate (a label without a number included)
\* every line the fallback accepts has its candidate in the list.
FallbackOnlyWhenNoLabel ==
  pc = "parse_done" => FallbackOnlyOfLines(candidates, TextLines)

\* some line has a label and no candidate
LabelWithoutNumber(lines) ==
  \E k \in 1..Len(lines) :
    ~IsNone(LabelSearch(lines[k])) /\ IsNone(ExtractTshFromLabelledLine(lines[k]))

\* a text with a label that no number follows was parsed and the fallback
\* gave a candidate from another line
FallbackOnlyWitness ==
  /\ pc = "parse_done"
  /\ LabelWithoutNumber(TextLines)
  /\ \E i \in 1..Len(candidates) : IsFallbackCandidate(candidates[i])

\* the characters of s that are digits
DigitsOf(s) == SelectSeq(s, LAMBDA c : c \in Digits)

\* the integer a bound string without a decimal mark denotes
SignedInt(s) ==
  IF s[1] = "-" THEN 0 - DigitsToInt(DigitsOf(s)) ELSE DigitsToInt(DigitsOf(s))

\* the position of the decimal mark of s
MarkOf(s) == CHOOSE i \in 1..Len(s) : s[i] \in {",", "."}

\* the unsigned number written as int [.,] frac, in 1/Scale
WrittenUnsigned(int, frac) ==
  DigitsToInt(int) * Scale + DigitsToInt(frac) * Pow10(3 - Len(frac))

\* the number a bound string with a decimal mark denotes, in 1/Scale
WrittenValue(s) ==
  IF s[1] = "-"
  THEN 0 - WrittenUnsigned(DigitsOf(Slice(s, 1, MarkOf(s))), Slice(s, MarkOf(s) + 1, Len(s) + 1))
  ELSE WrittenUnsigned(DigitsOf(Slice(s, 1, MarkOf(s))), Slice(s, MarkOf(s) + 1, Len(s) + 1))

\* the integer v of a bound of n digits, rescaled, in 1/Scale
RescaledInt(v, n) ==
  IF n >= 4 THEN v
  ELSE IF n = 3 THEN v * 10
  ELSE v * Scale

\* the value stated for the bound string s
StatedBound(s) ==
  IF "," \in Range(s) \/ "." \in Range(s) THEN WrittenValue(s)
  ELSE RescaledInt(SignedInt(s), Len(DigitsOf(s)))

ScenarioE == <<"0","4","0","0","-","4","0","0","0">>

\* C12: for a bound string without a decimal mark _adjust_ref_value returns
\* the integer divided by 100 when it has 3 digits, by 1000 when it has 4 or
\* more, unchanged when it has 1 or 2; a bound with a comma or a point is
\* parsed as written; the interval "0400-4000" gives 0.4 and 4.0.
RefBoundRescaling ==
  /\ pc = "adjust_done" => refOut = <<Some(StatedBound(refRaw))>>
  /\ (pc = "range_done" /\ refRaw = ScenarioE) => refOut = <<Some(400), Some(4000)>>

\* image_to_string gives a non-blank text on img
TextRecoverable(img) == img.stringOk /\ ~IsBlank(img.text)

\* image_to_data gives a token on img
TokensRecoverable(img) == img.dataOk /\ img.tokens # <<>>

\* the outcome out of a pass on img is as stated, recovered saying whether
\* the OCR calls of the pass recover a text or a token on img: the sentinel
\* only for an image that does not load or gives neither text nor tokens,
\* and a result only with a non-blank text or a token
PassOutcomeStated(img, recovered, out) ==
  /\ IsNone(out) => (~img.loadable \/ ~recovered)
  /\ ~IsNone(out) => (~IsBlank(Get(out).raw_text) \/ Get(out).boxes # <<>>)

\* a pass has ended
PassDone == pc \in {"light_done", "premium_done", "optimum_done"}

\* C13: each pass ends by returning; it returns the failure sentinel only
\* when the image cannot be loaded or when neither text nor tokens are
\* recovered (the fast pass reads no tokens), whatever the preprocessing
\* steps raised, and every OCRResult it returns has a non-blank raw_text or
\* at least one token.
PassContract ==
  /\ PassDone => IsNone(raised)
  /\ pc = "light_done" =>
       PassOutcomeStated(file.image, TextRecoverable(file.image), ocrOut)
  /\ pc \in {"premium_done", "optimum_done"} =>
       PassOutcomeStated(file.image,
                         TextRecoverable(file.image) \/ TokensRecoverable(file.image),
                         ocrOut)

\* the outcome of the request is that of the try block of the handler
OutcomeOfBody(body) == raised = body.raised /\ result = body.ret

\* C14: in the /ocr/tsh handler a rejected content type creates no
\* temporary file, every temporary file that was created has been removed,
\* or its removal attempted, when the handler ends, on every path, and a
\* failure of the removal does not change the outcome of the request.
TempFileRemoved ==
  pc = "ocr_tsh_done" =>
    /\ ~IsSupportedContentType(file.content_type) => (tempLog = <<>> /\ tempFiles = {})
    /\ tempLog # <<>> =>
         /\ tempLog[1] = "created"
         /\ tempLog[Len(tempLog)] \in {"removed", "remove_failed"}
    /\ tempFiles # {} => (tempLog # <<>> /\ tempLog[Len(tempLog)] = "remove_failed")
    /\ (IsSupportedContentType(file.content_type) /\ file.copyOk) =>
         OutcomeOfBody(OcrTshBody(TempPath))

====
